---- MODULE Spec2Model ----
(***************************************************************************)
(* A model of IPLDResolver (src/src/index.js): the codec registry, the     *)
(* block store it drives, and the lazy sequences returned by resolve, get, *)
(* put, remove and tree.  Under Spec and TreeSpec one consumer drives one  *)
(* sequence at a time, awaits each advance before it asks for the next     *)
(* item, and makes its next call once the sequence at hand signalled       *)
(* exhaustion or an error.  Under ConcSpec two sequences are advanced at   *)
(* interleaved times and requests need not be awaited.                     *)
(***************************************************************************)
EXTENDS Integers, Sequences, FiniteSets, TLC

VARIABLES
  resolvers,   \* this.resolvers: codec code -> registry entry
  hasLoader,   \* whether options.loadFormat was a function
  store,       \* the blocks held by the block service this.bs
  it,          \* the sequence most recently returned by a public call
  calls,       \* number of public calls made so far
  lastCall,    \* outcome of the last addFormat / removeFormat call
  hist         \* history of the lookups made through _getFormat

vars == <<resolvers, hasLoader, store, it, calls, lastCall, hist>>

(***************************************************************************)
(* Bounds of the model.                                                    *)
(***************************************************************************)
MaxCalls == 2
MaxAdvances == 5
MaxRetries == 1
MaxItems == 2

(***************************************************************************)
(* Codec identifiers.  A codec is known by its name (the string a CID and  *)
(* a Format carry) and by its code (the number the registry is keyed by).  *)
(***************************************************************************)
Undefined == "undefined"

CodecNames == {"dag-cbor", "dag-pb"}

Codes == {"0x71", "0x70"}

getCode(name) == IF name = "dag-cbor" THEN "0x71" ELSE "0x70"

DefaultHashAlg == "sha2-256"

HashAlgs == {"sha2-256", "sha3-512"}

\* The implementations of a codec a caller can register, and the one the
\* loader supplies.
Impls(name) == IF name = "dag-cbor" THEN {"A", "B"} ELSE {"A"}

LoaderImpl == "A"

\* An IPLD Format as a caller or the loader supplies it.
Format(name, impl) ==
  [kind |-> "format", multicodec |-> name, impl |-> impl,
   defaultHashAlg |-> DefaultHashAlg]

Formats == UNION {{Format(n, i) : i \in Impls(n)} : n \in CodecNames}

NoFormat ==
  [kind |-> "none", multicodec |-> "", impl |-> "", defaultHashAlg |-> Undefined]

LoadThrows ==
  [kind |-> "throw", multicodec |-> "", impl |-> "", defaultHashAlg |-> Undefined]

\* The object addFormat stores: a new object holding the format's resolver
\* and util only.
Entry(format) ==
  [kind |-> "entry", multicodec |-> format.multicodec, impl |-> format.impl,
   defaultHashAlg |-> Undefined]

(***************************************************************************)
(* The codec registry.                                                     *)
(***************************************************************************)
addFormat_overwrite(res, format) ==
  LET codec == getCode(format.multicodec)
  IN  [ok |-> TRUE, err |-> "",
       resolvers |-> [res EXCEPT ![codec] = Entry(format)]]

addFormat(res, format) ==
  LET codec == getCode(format.multicodec)
  IN  IF res[codec] # NoFormat
      THEN [ok |-> FALSE, err |-> "Resolver already exists", resolvers |-> res]
      ELSE [ok |-> TRUE, err |-> "",
            resolvers |-> [res EXCEPT ![codec] = Entry(format)]]

removeFormat(res, codec) ==
  IF res[codec] # NoFormat THEN [res EXCEPT ![codec] = NoFormat] ELSE res

\* What this.loadFormat(codec) can do: without a loader option it throws;
\* a supplied loader fails or returns a Format of the codec asked for.
loadFormat(codec) ==
  IF hasLoader
  THEN {LoadThrows} \cup
       {Format(n, LoaderImpl) : n \in {m \in CodecNames : getCode(m) = codec}}
  ELSE {LoadThrows}

\* The error a failed this.loadFormat(codec) carries: the default loader's
\* own (lines 27-31) or whatever the supplied loader threw.
loadError_masked == "No resolver found"

loadError == IF hasLoader THEN "loader failed" ELSE "No resolver found"

\* A codec that is no key of the registry (undefined) is a miss.
_getFormat(res, codec, loaded) ==
  LET code == IF codec \in CodecNames THEN getCode(codec) ELSE codec
  IN  IF code \in Codes /\ res[code] # NoFormat
      THEN [ok |-> TRUE, err |-> "", format |-> res[code], resolvers |-> res,
            loaderInvoked |-> FALSE, code |-> code, before |-> res]
      ELSE IF loaded.kind = "throw"
           THEN [ok |-> FALSE, err |-> loadError,
                 format |-> NoFormat, resolvers |-> res,
                 loaderInvoked |-> TRUE, code |-> code, before |-> res]
           ELSE LET a == addFormat(res, loaded)
                IN  [ok |-> a.ok, err |-> a.err,
                     format |-> IF a.ok THEN loaded ELSE NoFormat,
                     resolvers |-> a.resolvers,
                     loaderInvoked |-> TRUE, code |-> code, before |-> res]

\* History of lookups: the Format the first successful lookup of a code
\* returned since the code was last removed, and the latest lookup made.
NoLookup ==
  [code |-> "", ok |-> FALSE, format |-> NoFormat, loaderInvoked |-> FALSE,
   again |-> FALSE, err |-> "", unchanged |-> TRUE]

noteLookup(h, gf) ==
  [h EXCEPT !.first = IF gf.ok /\ h.first[gf.code] = NoFormat
                      THEN [h.first EXCEPT ![gf.code] = gf.format]
                      ELSE h.first,
            !.last = [code |-> gf.code, ok |-> gf.ok, format |-> gf.format,
                      loaderInvoked |-> gf.loaderInvoked,
                      again |-> h.first[gf.code] # NoFormat,
                      err |-> gf.err,
                      unchanged |-> gf.resolvers = gf.before]]

forgetLookup(h, code) == [h EXCEPT !.first[code] = NoFormat]

(***************************************************************************)
(* CIDs, blocks and the values a node holds.                               *)
(***************************************************************************)
MkCID(codec, version, hashAlg, digest) ==
  [codec |-> codec, version |-> version, hashAlg |-> hashAlg, digest |-> digest]

\* The JavaScript null a resolve sequence holds once there is no CID to follow.
NullCid == MkCID("", 1, "", "")

\* cid.toBaseEncodedString(): the string form a legacy link carries.
CidToString(c) ==
  <<"cid", c.codec, IF c.version = 0 THEN "0" ELSE "1", c.hashAlg, c.digest>>

\* new CID(str): parses the string form, throws on anything else.
newCID(s) ==
  IF /\ Len(s) = 5
     /\ s[1] = "cid"
     /\ s[2] \in CodecNames
     /\ s[3] \in {"0", "1"}
     /\ s[4] \in HashAlgs
  THEN [ok |-> TRUE,
        cid |-> MkCID(s[2], IF s[3] = "0" THEN 0 ELSE 1, s[4], s[5])]
  ELSE [ok |-> FALSE, cid |-> NullCid]

\* JavaScript values: a CID object, a plain object (its own keys, the string
\* under "/" when it has that key, the node it is when it is a whole node),
\* a string (its characters), a number, a boolean, null.
JsCid(c) ==
  [type |-> "cid", cid |-> c, keys |-> {"codec", "version", "multihash"},
   slash |-> <<>>, chars |-> <<>>, body |-> ""]

JsMap(keys, slash, body) ==
  [type |-> "map", cid |-> NullCid, keys |-> keys, slash |-> slash,
   chars |-> <<>>, body |-> body]

JsString(chars) ==
  [type |-> "string", cid |-> NullCid, keys |-> {}, slash |-> <<>>,
   chars |-> chars, body |-> ""]

JsNumber ==
  [type |-> "number", cid |-> NullCid, keys |-> {}, slash |-> <<>>,
   chars |-> <<>>, body |-> ""]

JsBoolean ==
  [type |-> "boolean", cid |-> NullCid, keys |-> {}, slash |-> <<>>,
   chars |-> <<>>, body |-> ""]

JsNull ==
  [type |-> "null", cid |-> NullCid, keys |-> {}, slash |-> <<>>,
   chars |-> <<>>, body |-> ""]

isCID(v) == v.type = "cid"

\* Object.keys(value).length: null has no keys to list (TypeError), a string
\* lists its indices, a number or boolean lists nothing.
ObjectKeysLength(v) ==
  CASE v.type = "null" -> [ok |-> FALSE, n |-> 0]
    [] v.type = "string" -> [ok |-> TRUE, n |-> Len(v.chars)]
    [] v.type \in {"number", "boolean"} -> [ok |-> TRUE, n |-> 0]
    [] OTHER -> [ok |-> TRUE, n |-> Cardinality(v.keys)]

\* '/' in value: defined on objects only (TypeError on a primitive).
SlashIn(v) ==
  IF v.type \in {"cid", "map"}
  THEN [ok |-> TRUE, b |-> "/" \in v.keys]
  ELSE [ok |-> FALSE, b |-> FALSE]

(***************************************************************************)
(* The nodes of the graph in the block store and the nodes a caller puts.  *)
(***************************************************************************)
Fields == {"a", "b"}

GraphNodes == {"nR", "nRL", "nA", "nB", "nV", "nW"}

CodecOfNode(n) == IF n = "nB" THEN "dag-pb" ELSE "dag-cbor"

CidOf(n) == MkCID(CodecOfNode(n), 1, DefaultHashAlg, n)

DanglingCid == MkCID("dag-cbor", 1, DefaultHashAlg, "nX")

NodeFields(n) ==
  CASE n = "nR"  -> [f \in Fields |->
                       IF f = "a" THEN JsCid(CidOf("nA")) ELSE JsNumber]
    [] n = "nRL" -> [f \in Fields |->
                       IF f = "a"
                       THEN JsMap({"/"}, CidToString(CidOf("nA")), "")
                       ELSE JsNumber]
    [] n = "nA"  -> [f \in Fields |->
                       IF f = "a" THEN JsCid(CidOf("nB")) ELSE JsBoolean]
    [] n = "nB"  -> [f \in Fields |->
                       IF f = "a" THEN JsString(<<"x", "y">>) ELSE JsNull]
    [] n = "nV"  -> [f \in Fields |->
                       IF f = "a" THEN JsString(<<"x">>)
                       ELSE JsMap({"/"}, <<"z", "z">>, "")]
    [] n = "nW"  -> [f \in Fields |->
                       IF f = "a"
                       THEN JsMap({"/", "k"}, CidToString(CidOf("nB")), "")
                       ELSE JsMap({"k"}, <<>>, "")]
    [] OTHER     -> [f \in Fields |-> IF f = "a" THEN JsNumber ELSE JsBoolean]

\* The same graph with every legacy link written as a native CID.
Native(n) == IF n = "nRL" THEN "nR" ELSE n

(***************************************************************************)
(* The operations of a Format (format.resolver, format.util).              *)
(***************************************************************************)
\* util.serialize / util.deserialize: the bytes of a node in one codec.
serialize(format, node) == [enc |-> format.multicodec, body |-> node]

deserialize(format, data) ==
  IF data.enc = format.multicodec
  THEN [ok |-> TRUE, node |-> data.body]
  ELSE [ok |-> FALSE, node |-> ""]

\* A value a Format stops at: a CID or a legacy {"/": ...} link.
linkShaped(v) == isCID(v) \/ (v.type = "map" /\ v.keys = {"/"})

\* resolver.resolve(data, path): the value the path leads to inside the
\* node, with the part of the path that lies beyond a link.
resolverResolve(format, data, path) ==
  LET d == deserialize(format, data)
  IN  IF ~d.ok
      THEN [ok |-> FALSE, value |-> JsNull, remainderPath |-> <<>>]
      ELSE IF path = <<>>
      THEN [ok |-> TRUE, value |-> JsMap(Fields, <<>>, d.node),
            remainderPath |-> <<>>]
      ELSE LET v == NodeFields(d.node)[Head(path)]
           IN  IF linkShaped(v) \/ Tail(path) = <<>>
               THEN [ok |-> TRUE, value |-> v, remainderPath |-> Tail(path)]
               ELSE [ok |-> FALSE, value |-> JsNull, remainderPath |-> <<>>]

\* util.cid(node, {version, hashAlg, onlyHash}): the CID of the node in the
\* Format's codec; a Format falls back on its own hash algorithm when the
\* options name none.
utilCid(format, node, cidOptions) ==
  MkCID(format.multicodec, cidOptions.version,
        IF cidOptions.hashAlg = Undefined THEN DefaultHashAlg
        ELSE cidOptions.hashAlg,
        node)

(***************************************************************************)
(* The block service.                                                      *)
(***************************************************************************)
Block(data, cid) == [cid |-> cid, data |-> data]

InitStore ==
  {Block([enc |-> CodecOfNode(n), body |-> n], CidOf(n)) : n \in GraphNodes}

bsHas(s, cid) == \E b \in s : b.cid = cid

bsGet(s, cid) == CHOOSE b \in s : b.cid = cid

bsPut(s, block) == {b \in s : b.cid # block.cid} \cup {block}

bsDelete(s, cid) == {b \in s : b.cid # cid}

(***************************************************************************)
(* Sequences.  fancyIterator(next) is the iterator whose advance is next:  *)
(* every request for the next item calls next(), whatever the earlier      *)
(* advances returned.  A generator (get, put) runs its body only until its *)
(* first return or throw.                                                  *)
(***************************************************************************)
fancyIterator(st) == TRUE

NoIt == [kind |-> "none"]

\* The bookkeeping common to every advance that throws.
threw(st, what) ==
  [st EXCEPT !.failed = TRUE,
             !.error = TRUE,
             !.thrown = what,
             !.opsAtFail = IF st.failed THEN @ ELSE Len(st.ops),
             !.emittedAtFail = IF st.failed THEN @ ELSE Len(st.emitted),
             !.errors = @ + 1,
             !.advances = @ + 1]

\* The consumer is through with the sequence at hand.
Idle == IF it.kind = "none" THEN TRUE ELSE it.done \/ it.error

\* The consumer may ask the sequence at hand for its next item.
CanAdvance == it.advances < MaxAdvances /\ it.errors <= MaxRetries

(***************************************************************************)
(* resolve(cid, path)                                                      *)
(***************************************************************************)
\* Lines 115-117: an old style link {"/": ...} becomes a CID.
legacyLink_anySlash(value) ==
  LET s == SlashIn(value)
  IN  IF ~s.ok
      THEN [ok |-> FALSE, value |-> value]
      ELSE IF ~s.b
      THEN [ok |-> TRUE, value |-> value]
      ELSE LET c == newCID(value.slash)
           IN  [ok |-> c.ok, value |-> IF c.ok THEN JsCid(c.cid) ELSE value]

legacyLink(value) ==
  LET n == ObjectKeysLength(value)
  IN  IF ~n.ok
      THEN [ok |-> FALSE, value |-> value]
      ELSE IF n.n # 1
      THEN [ok |-> TRUE, value |-> value]
      ELSE LET s == SlashIn(value)
           IN  IF ~s.ok
               THEN [ok |-> FALSE, value |-> value]
               ELSE IF ~s.b
               THEN [ok |-> TRUE, value |-> value]
               ELSE LET c == newCID(value.slash)
                    IN  [ok |-> c.ok,
                         value |-> IF c.ok THEN JsCid(c.cid) ELSE value]

\* Line 118: the CID the next advance loads, null when the value is no CID.
nextCid_stop(value) == NullCid

nextCid(value) == IF isCID(value) THEN value.cid ELSE NullCid

resolve(cid, path) ==
  [kind |-> "resolve", root |-> cid, path0 |-> path, cid |-> cid, path |-> path,
   emitted |-> <<>>, loads |-> <<>>, ops |-> <<>>, failed |-> FALSE,
   error |-> FALSE, errors |-> 0, thrown |-> "", opsAtFail |-> 0, emittedAtFail |-> 0,
   done |-> FALSE, advances |-> 0, opsBefore |-> 0, emittedBefore |-> 0,
   lastValue |-> JsNull]

\* One call of the closure next of resolve (lines 96-127).
resolveNext(st0, res, s, loaded) ==
  LET st == [st0 EXCEPT !.error = FALSE, !.thrown = "",
                        !.opsBefore = Len(st0.ops),
                        !.emittedBefore = Len(st0.emitted)]
  IN
  IF st.cid = NullCid
  THEN [it |-> [st EXCEPT !.done = TRUE, !.advances = @ + 1],
        resolvers |-> res, lookups |-> <<>>]
  ELSE
    LET gf == _getFormat(res, st.cid.codec, loaded)
        st1 == [st EXCEPT !.ops = Append(@, "getFormat")]
    IN
    IF ~gf.ok
    THEN [it |-> threw(st1, "getFormat"), resolvers |-> gf.resolvers,
          lookups |-> <<gf>>]
    ELSE
      LET st2 == [st1 EXCEPT !.ops = Append(@, "bs.get")]
      IN
      IF ~bsHas(s, st.cid)
      THEN [it |-> threw(st2, "bs.get"), resolvers |-> gf.resolvers,
            lookups |-> <<gf>>]
      ELSE
        LET block == bsGet(s, st.cid)
            result == resolverResolve(gf.format, block.data, st.path)
            st3 == [st2 EXCEPT !.ops = Append(@, "resolve"),
                               !.loads = Append(@, [cid |-> st.cid,
                                                    path |-> st.path])]
        IN
        IF ~result.ok
        THEN [it |-> threw(st3, "resolve"), resolvers |-> gf.resolvers,
              lookups |-> <<gf>>]
        ELSE
          LET st4 == [st3 EXCEPT !.path = result.remainderPath,
                                 !.lastValue = result.value]
              link == legacyLink(result.value)
          IN
          IF ~link.ok
          THEN [it |-> threw(st4, "link"), resolvers |-> gf.resolvers,
                lookups |-> <<gf>>]
          ELSE [it |-> [st4 EXCEPT
                          !.cid = nextCid(link.value),
                          !.emitted = Append(@,
                             [remainderPath |-> result.remainderPath,
                              value |-> link.value,
                              raw |-> result.value]),
                          !.advances = @ + 1],
                resolvers |-> gf.resolvers, lookups |-> <<gf>>]

\* The lookups an advance made, entered into the history in order; the
\* latest lookup is that of the latest advance, if it made any.
RECURSIVE enterLookups(_, _)
enterLookups(h, gfs) ==
  IF gfs = <<>> THEN h ELSE enterLookups(noteLookup(h, Head(gfs)), Tail(gfs))

noteLookups(h, gfs) == enterLookups([h EXCEPT !.last = NoLookup], gfs)

(***************************************************************************)
(* get(cids)                                                               *)
(***************************************************************************)
get(cids) ==
  [kind |-> "get", input |-> cids, i |-> 1,
   emitted |-> <<>>, ops |-> <<>>, failed |-> FALSE,
   error |-> FALSE, errors |-> 0, thrown |-> "", opsAtFail |-> 0, emittedAtFail |-> 0,
   done |-> FALSE, finished |-> FALSE, advances |-> 0]

\* A generator that threw has finished.
genThrew_resumable(st, what) == threw(st, what)

genThrew(st, what) == [threw(st, what) EXCEPT !.finished = TRUE]

\* One advance of the generator of get (lines 144-151).
getNext(st0, res, s, loaded) ==
  LET st == [st0 EXCEPT !.error = FALSE, !.thrown = ""]
  IN
  IF st.finished \/ st.i > Len(st.input)
  THEN [it |-> [st EXCEPT !.done = TRUE, !.finished = TRUE, !.advances = @ + 1],
        resolvers |-> res, lookups |-> <<>>]
  ELSE
    LET cid == st.input[st.i]
        st1 == [st EXCEPT !.ops = Append(@, "bs.get"), !.i = @ + 1]
    IN
    IF ~bsHas(s, cid)
    THEN [it |-> genThrew(st1, "bs.get"), resolvers |-> res, lookups |-> <<>>]
    ELSE
      LET block == bsGet(s, cid)
          gf == _getFormat(res, block.cid.codec, loaded)
          st2 == [st1 EXCEPT !.ops = Append(@, "getFormat")]
      IN
      IF ~gf.ok
      THEN [it |-> genThrew(st2, "getFormat"), resolvers |-> gf.resolvers,
            lookups |-> <<gf>>]
      ELSE
        LET node == deserialize(gf.format, block.data)
            st3 == [st2 EXCEPT !.ops = Append(@, "deserialize")]
        IN
        IF ~node.ok
        THEN [it |-> genThrew(st3, "deserialize"), resolvers |-> gf.resolvers,
              lookups |-> <<gf>>]
        ELSE [it |-> [st3 EXCEPT
                        !.emitted = Append(@, [cid |-> cid, node |-> node.node]),
                        !.advances = @ + 1],
              resolvers |-> gf.resolvers, lookups |-> <<gf>>]

(***************************************************************************)
(* put(nodes, format, userOptions)                                         *)
(***************************************************************************)
\* mergeOptions(defaults, userOptions): the keys the caller gave win.
mergeOptions(defaults, user) ==
  [hashAlg |-> IF "hashAlg" \in user.has THEN user.hashAlg ELSE defaults.hashAlg,
   cidVersion |-> IF "cidVersion" \in user.has THEN user.cidVersion
                  ELSE defaults.cidVersion,
   onlyHash |-> IF "onlyHash" \in user.has THEN user.onlyHash
                ELSE defaults.onlyHash]

NoOptions == [hashAlg |-> Undefined, cidVersion |-> 1, onlyHash |-> FALSE]

put(nodes, format, userOptions) ==
  [kind |-> "put", input |-> nodes, format |-> format,
   userOptions |-> userOptions, i |-> 1,
   optionsSet |-> FALSE, options |-> NoOptions, formatImpl |-> NoFormat,
   emitted |-> <<>>, ops |-> <<>>, cidCalls |-> <<>>, failed |-> FALSE,
   error |-> FALSE, errors |-> 0, thrown |-> "", opsAtFail |-> 0, emittedAtFail |-> 0,
   done |-> FALSE, finished |-> FALSE, advances |-> 0, storeAtStart |-> {}]

\* _store(cid, node) (lines 362-367); putOk is whether bs.put succeeds.
_store_fixedFormat(res, s, cid, node, loaded, putOk) ==
  LET gf == _getFormat(res, cid.codec, loaded)
  IN  IF ~gf.ok
      THEN [ok |-> FALSE, resolvers |-> gf.resolvers, store |-> s, gf |-> gf,
            wrote |-> FALSE]
      ELSE LET serialized == serialize(Format("dag-cbor", "A"), node)
               block == Block(serialized, cid)
           IN  [ok |-> putOk, resolvers |-> gf.resolvers,
                store |-> IF putOk THEN bsPut(s, block) ELSE s, gf |-> gf,
                wrote |-> TRUE]

_store(res, s, cid, node, loaded, putOk) ==
  LET gf == _getFormat(res, cid.codec, loaded)
  IN  IF ~gf.ok
      THEN [ok |-> FALSE, resolvers |-> gf.resolvers, store |-> s, gf |-> gf,
            wrote |-> FALSE]
      ELSE LET serialized == serialize(gf.format, node)
               block == Block(serialized, cid)
           IN  [ok |-> putOk, resolvers |-> gf.resolvers,
                store |-> IF putOk THEN bsPut(s, block) ELSE s, gf |-> gf,
                wrote |-> TRUE]

\* Lines 203-205: the block is written unless options.onlyHash.
shouldStore_always(options) == TRUE

shouldStore(options) == ~options.onlyHash

\* One advance of the generator of put (lines 182-208).
putNext(st0, res, s, loaded, putOk) ==
  LET st == [st0 EXCEPT !.error = FALSE, !.thrown = ""]
  IN
  IF st.finished \/ st.i > Len(st.input)
  THEN [it |-> [st EXCEPT !.done = TRUE, !.finished = TRUE, !.advances = @ + 1],
        resolvers |-> res, store |-> s, lookups |-> <<>>]
  ELSE
    LET node == st.input[st.i]
        gf == _getFormat(res, st.format, loaded)
        lk1 == IF st.optionsSet THEN <<>> ELSE <<gf>>
        res1 == IF st.optionsSet THEN res ELSE gf.resolvers
        st1 == IF st.optionsSet THEN [st EXCEPT !.i = @ + 1]
               ELSE [st EXCEPT !.i = @ + 1, !.ops = Append(@, "getFormat")]
    IN
    IF ~st.optionsSet /\ ~gf.ok
    THEN [it |-> genThrew(st1, "getFormat"), resolvers |-> res1, store |-> s,
          lookups |-> lk1]
    ELSE
      LET formatImpl == IF st.optionsSet THEN st.formatImpl ELSE gf.format
          defaultOptions == [hashAlg |-> formatImpl.defaultHashAlg,
                             cidVersion |-> 1, onlyHash |-> FALSE]
          options == IF st.optionsSet THEN st.options
                     ELSE mergeOptions(defaultOptions, st.userOptions)
          cidOptions == [version |-> options.cidVersion,
                         hashAlg |-> options.hashAlg,
                         onlyHash |-> options.onlyHash]
          cid == utilCid(formatImpl, node, cidOptions)
          st2 == [st1 EXCEPT !.optionsSet = TRUE, !.options = options,
                             !.formatImpl = formatImpl,
                             !.ops = Append(@, "cid"),
                             !.cidCalls = Append(@, cidOptions)]
      IN
      IF ~shouldStore(options)
      THEN [it |-> [st2 EXCEPT !.emitted = Append(@, [cid |-> cid, node |-> node]),
                               !.advances = @ + 1],
            resolvers |-> res1, store |-> s, lookups |-> lk1]
      ELSE
        LET w == _store(res1, s, cid, node, loaded, putOk)
            st3 == [st2 EXCEPT !.ops = IF w.wrote
                                       THEN @ \o <<"getFormat", "serialize", "bs.put">>
                                       ELSE Append(@, "getFormat")]
        IN
        IF ~w.ok
        THEN [it |-> genThrew(st3, "store"), resolvers |-> w.resolvers,
              store |-> w.store,
              lookups |-> Append(lk1, w.gf)]
        ELSE [it |-> [st3 EXCEPT
                        !.emitted = Append(@, [cid |-> cid, node |-> node]),
                        !.advances = @ + 1],
              resolvers |-> w.resolvers, store |-> w.store,
              lookups |-> Append(lk1, w.gf)]

(***************************************************************************)
(* remove(cids)                                                            *)
(***************************************************************************)
remove(cids) ==
  [kind |-> "remove", input |-> cids, cids |-> cids,
   emitted |-> <<>>, ops |-> <<>>, failed |-> FALSE,
   error |-> FALSE, errors |-> 0, thrown |-> "", opsAtFail |-> 0, emittedAtFail |-> 0,
   done |-> FALSE, advances |-> 0]

\* One call of the closure next of remove (lines 228-241); deleteOk is
\* whether bs.delete succeeds.
removeNext(st0, s, deleteOk) ==
  LET st == [st0 EXCEPT !.error = FALSE, !.thrown = ""]
  IN
  IF Len(st.cids) = 0
  THEN [it |-> [st EXCEPT !.done = TRUE, !.advances = @ + 1], store |-> s]
  ELSE
    LET cid == Head(st.cids)
        st1 == [st EXCEPT !.cids = Tail(@), !.ops = Append(@, cid)]
    IN
    IF ~deleteOk
    THEN [it |-> threw(st1, "bs.delete"), store |-> s]
    ELSE [it |-> [st1 EXCEPT !.emitted = Append(@, cid), !.advances = @ + 1],
          store |-> bsDelete(s, cid)]

(***************************************************************************)
(* The state after construction.                                           *)
(***************************************************************************)
RECURSIVE constructor(_, _)
constructor(res, formats) ==
  IF formats = <<>> THEN res
  ELSE constructor(addFormat(res, Head(formats)).resolvers, Tail(formats))

\* options.formats: none, or the default list (one Format per codec).
InitFormats ==
  { <<>>,
    <<Format("dag-cbor", "A"), Format("dag-pb", "A")>> }

NoCall == [op |-> "none", code |-> "", threw |-> FALSE,
           present |-> FALSE, before |-> <<>>, after |-> <<>>]

Init ==
  /\ resolvers \in {constructor([c \in Codes |-> NoFormat], fs) : fs \in InitFormats}
  /\ hasLoader \in BOOLEAN
  /\ store = InitStore
  /\ it = NoIt
  /\ calls = 0
  /\ lastCall = NoCall
  /\ hist = [first |-> [c \in Codes |-> NoFormat], last |-> NoLookup,
             written |-> {}]

(***************************************************************************)
(* The inputs of the public calls.                                         *)
(***************************************************************************)
MaxPathLen == 3

\* Paths along the chain of "a" links, ending in either field.
RECURSIVE Repeat(_, _)
Repeat(f, n) == IF n = 0 THEN <<>> ELSE <<f>> \o Repeat(f, n - 1)

ResolvePaths ==
  {<<>>} \cup {Repeat("a", n - 1) \o <<f>> : n \in 1..MaxPathLen, f \in Fields}

ResolveRoots == {CidOf(n) : n \in {"nR", "nRL", "nV", "nW"}} \cup {DanglingCid}

\* The number of blocks on the chain of "a" links that starts at cid.
RECURSIVE Reach(_, _)
Reach(cid, fuel) ==
  IF fuel = 0 \/ ~bsHas(InitStore, cid) THEN 0
  ELSE LET link == legacyLink(NodeFields(cid.digest)["a"])
       IN  IF link.ok /\ isCID(link.value)
           THEN 1 + Reach(link.value.cid, fuel - 1)
           ELSE 1

\* The paths tried from a root: those that end at most one segment past the
\* last block of its chain.
ResolveInputs ==
  {<<cid, path>> \in ResolveRoots \X ResolvePaths :
     Len(path) <= Reach(cid, MaxPathLen) + 1}

\* The lists of at most n distinct members of S.
RECURSIVE SeqsUpTo(_, _)
SeqsUpTo(S, n) ==
  IF n = 0 THEN {<<>>}
  ELSE LET shorter == SeqsUpTo(S, n - 1)
       IN  shorter \cup
           UNION {{<<x>> \o q :
                     q \in {r \in shorter : \A i \in 1..Len(r) : r[i] # x}} :
                  x \in S}

RemovePool == {CidOf("nA"), CidOf("nB")}

GetPool == {CidOf("nA"), DanglingCid} \cup {w.cid : w \in hist.written}

PutList(n) == [i \in 1..n |-> IF i % 2 = 1 THEN "p1" ELSE "p2"]

UserOptions ==
  {[has |-> h \cup o, hashAlg |-> "sha3-512", cidVersion |-> 0,
    onlyHash |-> TRUE] :
     h \in {{}, {"hashAlg", "cidVersion"}}, o \in {{}, {"onlyHash"}}}

(***************************************************************************)
(* Public calls and advances.                                              *)
(***************************************************************************)
\* A new public call: the history of lookups starts afresh with it.
newCall(h) ==
  [h EXCEPT !.last = NoLookup, !.first = [c \in Codes |-> NoFormat]]

AddFormat(format) ==
  /\ calls < MaxCalls
  /\ Idle
  /\ LET r == addFormat(resolvers, format)
     IN  /\ resolvers' = r.resolvers
         /\ lastCall' = [op |-> "addFormat",
                         code |-> getCode(format.multicodec),
                         threw |-> ~r.ok,
                         present |-> resolvers[getCode(format.multicodec)] # NoFormat,
                         before |-> resolvers, after |-> r.resolvers]
  /\ calls' = calls + 1
  /\ hist' = newCall(hist)
  /\ UNCHANGED <<hasLoader, store, it>>

RemoveFormat(codec) ==
  /\ calls < MaxCalls
  /\ Idle
  /\ resolvers' = removeFormat(resolvers, codec)
  /\ hist' = newCall(forgetLookup(hist, codec))
  /\ lastCall' = [op |-> "removeFormat", code |-> codec,
                  threw |-> FALSE, present |-> resolvers[codec] # NoFormat,
                  before |-> resolvers, after |-> removeFormat(resolvers, codec)]
  /\ calls' = calls + 1
  /\ UNCHANGED <<hasLoader, store, it>>

Resolve(cid, path) ==
  /\ calls < MaxCalls
  /\ Idle
  /\ it' = resolve(cid, path)
  /\ calls' = calls + 1
  /\ hist' = newCall(hist)
  /\ lastCall' = NoCall
  /\ UNCHANGED <<resolvers, hasLoader, store>>

ResolveNext ==
  /\ it.kind = "resolve"
  /\ fancyIterator(it)
  /\ CanAdvance
  /\ \E loaded \in (IF it.cid = NullCid THEN {LoadThrows}
                    ELSE loadFormat(getCode(it.cid.codec))) :
       LET r == resolveNext(it, resolvers, store, loaded)
       IN  /\ it' = r.it
           /\ resolvers' = r.resolvers
           /\ hist' = noteLookups(hist, r.lookups)
  /\ UNCHANGED <<hasLoader, store, calls, lastCall>>

Get(cids) ==
  /\ calls < MaxCalls
  /\ Idle
  /\ it' = get(cids)
  /\ calls' = calls + 1
  /\ hist' = newCall(hist)
  /\ lastCall' = NoCall
  /\ UNCHANGED <<resolvers, hasLoader, store>>

GetNext ==
  /\ it.kind = "get"
  /\ CanAdvance
  /\ \E loaded \in (IF it.finished \/ it.i > Len(it.input) THEN {LoadThrows}
                    ELSE loadFormat(getCode(it.input[it.i].codec))) :
       LET r == getNext(it, resolvers, store, loaded)
       IN  /\ it' = r.it
           /\ resolvers' = r.resolvers
           /\ hist' = noteLookups(hist, r.lookups)
  /\ UNCHANGED <<hasLoader, store, calls, lastCall>>

Put(nodes, format, userOptions) ==
  /\ calls < MaxCalls
  /\ Idle
  /\ it' = [put(nodes, format, userOptions) EXCEPT !.storeAtStart = store]
  /\ calls' = calls + 1
  /\ hist' = newCall(hist)
  /\ lastCall' = NoCall
  /\ UNCHANGED <<resolvers, hasLoader, store>>

\* The block store here accepts every write (its deletes may fail).
PutOutcomes == {TRUE}

PutNext ==
  /\ it.kind = "put"
  /\ CanAdvance
  /\ \E loaded \in loadFormat(it.format), putOk \in PutOutcomes :
       LET r == putNext(it, resolvers, store, loaded, putOk)
           h == noteLookups(hist, r.lookups)
       IN  /\ it' = r.it
           /\ resolvers' = r.resolvers
           /\ store' = r.store
           /\ hist' = IF Len(r.it.emitted) > Len(it.emitted)
                           /\ shouldStore(r.it.options)
                      THEN [h EXCEPT !.written =
                              @ \cup {r.it.emitted[Len(r.it.emitted)]}]
                      ELSE h
  /\ UNCHANGED <<hasLoader, calls, lastCall>>

Remove(cids) ==
  /\ calls < MaxCalls
  /\ Idle
  /\ it' = remove(cids)
  /\ calls' = calls + 1
  /\ hist' = newCall(hist)
  /\ lastCall' = NoCall
  /\ UNCHANGED <<resolvers, hasLoader, store>>

RemoveNext ==
  /\ it.kind = "remove"
  /\ fancyIterator(it)
  /\ CanAdvance
  /\ \E deleteOk \in BOOLEAN :
       LET r == removeNext(it, store, deleteOk)
       IN  /\ it' = r.it
           /\ store' = r.store
           /\ hist' = [hist EXCEPT !.last = NoLookup,
                                    !.written =
                                      {w \in @ : bsHas(r.store, w.cid)}]
  /\ UNCHANGED <<resolvers, hasLoader, calls, lastCall>>

Next ==
  \/ \E f \in Formats : AddFormat(f)
  \/ \E c \in Codes : RemoveFormat(c)
  \/ \E in \in ResolveInputs : Resolve(in[1], in[2])
  \/ ResolveNext
  \/ calls < MaxCalls /\ \E cids \in SeqsUpTo(GetPool, MaxItems) : Get(cids)
  \/ GetNext
  \/ \E n \in 0..MaxItems, c \in Codes, u \in UserOptions : Put(PutList(n), c, u)
  \/ PutNext
  \/ \E cids \in SeqsUpTo(RemovePool, MaxItems) : Remove(cids)
  \/ RemoveNext

Spec == Init /\ [][Next]_vars

(***************************************************************************)
(* Properties.                                                             *)
(***************************************************************************)
ChainPath == <<"a", "a", "a">>

Values(emitted) == [i \in 1..Len(emitted) |-> emitted[i].value]

\* C1: a resolve sequence emits one step per node loaded: every step but
\* the last carries a CID, which is the block the next step loads with the
\* remainderPath of that step as its path; the last step carries a value
\* that is no CID; the advance after such a step signals exhaustion and
\* issues no operation.  The chain nR -> nA -> nB yields exactly the three
\* steps CID(nA), CID(nB), content; an empty path yields exactly one step
\* with an empty remainderPath.
ResolveStepsFollowLinks ==
  it.kind = "resolve" =>
    LET n == Len(it.emitted)
    IN  /\ \A i \in 1..(n - 1) : isCID(it.emitted[i].value)
        /\ it.done => (n > 0 /\ ~isCID(it.emitted[n].value))
        /\ (n > 0 /\ ~isCID(it.emitted[n].value) /\ it.emittedBefore = n)
             => (it.done /\ Len(it.ops) = it.opsBefore)
        /\ ~it.failed =>
             /\ Len(it.loads) = n
             /\ \A i \in 1..n :
                  it.loads[i] =
                    IF i = 1 THEN [cid |-> it.root, path |-> it.path0]
                    ELSE [cid |-> it.emitted[i - 1].value.cid,
                          path |-> it.emitted[i - 1].remainderPath]
        /\ (it.root = CidOf("nR") /\ it.path0 = ChainPath /\ it.done)
             => /\ Values(it.emitted) =
                     <<JsCid(CidOf("nA")), JsCid(CidOf("nB")),
                       JsString(<<"x", "y">>)>>
                /\ it.emitted[n].remainderPath = <<>>
        /\ (it.path0 = <<>> /\ it.done)
             => (n = 1 /\ it.emitted[1].remainderPath = <<>>)

ResolvedChain ==
  /\ it.kind = "resolve"
  /\ it.root = CidOf("nR")
  /\ it.path0 = ChainPath
  /\ it.done
  /\ ~it.failed
  /\ Len(it.emitted) = 3

LinkNormalizationNeverRaises ==
  (it.kind = "resolve" /\ it.thrown = "link") => linkShaped(it.lastValue)

\* The registry of the default options: one Format per codec.
FullRegistry ==
  constructor([c \in Codes |-> NoFormat],
              <<Format("dag-cbor", "A"), Format("dag-pb", "A")>>)

\* The steps resolve emits on the graph as constructed, run to the end.
RECURSIVE ResolveRun(_, _)
ResolveRun(st, k) ==
  IF k = 0 \/ st.done \/ st.failed THEN st.emitted
  ELSE ResolveRun(resolveNext(st, FullRegistry, InitStore, LoadThrows).it, k - 1)

\* The (remainderPath, value) steps; a value that is a whole node is named
\* by the node it is in the graph whose links are all native.
Steps(emitted) ==
  [i \in 1..Len(emitted) |->
     [remainderPath |-> emitted[i].remainderPath,
      value |-> [emitted[i].value EXCEPT !.body = Native(@)]]]

legacyShaped(v) == v.type = "map" /\ v.keys = {"/"}

\* C5: resolve follows a value exactly when it is a CID or a mapping whose
\* only key is "/": the step carries the CID the string under "/" encodes,
\* any other value is emitted as it is, and resolving from the node that
\* writes its link as {"/": string} emits the same (remainderPath, value)
\* steps as resolving from the node that writes it as a CID (a step whose
\* value is the root node itself carries that node in either graph).
LegacyLinkResolvesLikeCID ==
  it.kind = "resolve" =>
    /\ \A i \in 1..Len(it.emitted) :
         LET e == it.emitted[i]
         IN  /\ isCID(e.value) <=> (isCID(e.raw) \/ legacyShaped(e.raw))
             /\ legacyShaped(e.raw) => CidToString(e.value.cid) = e.raw.slash
             /\ ~legacyShaped(e.raw) => e.value = e.raw
    /\ (it.root = CidOf("nRL") /\ ~it.failed) =>
         LET run == Steps(ResolveRun(resolve(CidOf(Native("nRL")), it.path0),
                                     MaxAdvances))
         IN  /\ Len(it.emitted) <= Len(run)
             /\ Steps(it.emitted) = SubSeq(run, 1, Len(it.emitted))

ResolvedThroughLegacyLink ==
  /\ it.kind = "resolve"
  /\ it.root = CidOf("nRL")
  /\ it.done
  /\ ~it.failed
  /\ Len(it.emitted) >= 2
  /\ legacyShaped(it.emitted[1].raw)

ResolvedSlashAmongOtherKeys ==
  /\ it.kind = "resolve"
  /\ it.done
  /\ \E i \in 1..Len(it.emitted) :
       it.emitted[i].raw.type = "map" /\ it.emitted[i].raw.keys = {"/", "k"}

\* C6: put with onlyHash yields one CID per node and writes no block: the
\* store stays as it was when put was called.
OnlyHashLeavesStoreUnchanged ==
  (it.kind = "put" /\ "onlyHash" \in it.userOptions.has
     /\ it.userOptions.onlyHash) =>
    /\ store = it.storeAtStart
    /\ \A i \in 1..Len(it.ops) : it.ops[i] # "bs.put"
    /\ \A i \in 1..Len(it.emitted) : it.emitted[i].node = it.input[i]
    /\ (it.done /\ ~it.failed) => Len(it.emitted) = Len(it.input)

OnlyHashPutYielded ==
  /\ it.kind = "put"
  /\ "onlyHash" \in it.userOptions.has
  /\ it.done
  /\ Len(it.emitted) = MaxItems

\* C7: a node put under a codec and then read back with get through the
\* CID put yielded is the node that was put: the block lies under that CID
\* in the serialization of the CID's codec and get decodes it with the
\* Format of the block's codec.
PutThenGetRoundTrips ==
  /\ \A w \in hist.written :
       /\ bsHas(store, w.cid)
       /\ bsGet(store, w.cid) =
            Block([enc |-> w.cid.codec, body |-> w.node], w.cid)
  /\ it.kind = "get" =>
       /\ \A i \in 1..Len(it.emitted) : \A w \in hist.written :
            it.emitted[i].cid = w.cid => it.emitted[i].node = w.node
       /\ (it.error /\ it.input[it.i - 1] \in {w.cid : w \in hist.written})
            => it.thrown = "getFormat"

GotWhatWasPut ==
  /\ it.kind = "get"
  /\ \E i \in 1..Len(it.emitted) : \E w \in hist.written :
       it.emitted[i].cid = w.cid /\ w.cid.codec = "dag-pb"

\* C8: without overrides every call of the Format's CID computation gets
\* hashAlg = the codec's declared default, version = 1, onlyHash = false.
PutPassesDeclaredDefaults ==
  (it.kind = "put" /\ it.userOptions.has = {}) =>
    \A i \in 1..Len(it.cidCalls) :
      it.cidCalls[i] =
        [version |-> 1, hashAlg |-> DefaultHashAlg, onlyHash |-> FALSE]

\* C9: addFormat for a codec that is registered throws and leaves every
\* entry of the registry as it was.
DuplicateAddFormatFails ==
  (lastCall.op = "addFormat" /\ lastCall.present) =>
    /\ lastCall.threw
    /\ lastCall.after = lastCall.before

DuplicateAddFormatTried ==
  /\ lastCall.op = "addFormat"
  /\ lastCall.present
  /\ lastCall.before[lastCall.code].impl = "A"
  /\ lastCall.threw
  /\ resolvers[lastCall.code].impl = "A"

\* C10: once a lookup of a codec succeeded, every later lookup of it (none
\* removed in between) returns the same Format instance and does not call
\* the loader.
LookupReturnsSameInstance ==
  (hist.last.ok /\ hist.last.again) =>
    /\ hist.last.format = hist.first[hist.last.code]
    /\ ~hist.last.loaderInvoked

\* The latest lookup failed: the loader (the default one or the supplied
\* one) threw for an unregistered codec.
LookupFailed == hist.last.code # "" /\ ~hist.last.ok

\* The advance that made the failed lookup had issued a fetch before it.
FetchedBeforeLookup ==
  IF it.kind = "resolve"
  THEN Len(it.ops) > it.opsBefore + 1
  ELSE Len(it.ops) > 1 /\ it.ops[Len(it.ops) - 1] = "bs.get"

\* C11: a lookup of an unregistered codec fails with "No resolver found"
\* when no loader was supplied and with the loader's own error when the
\* loader fails; the registry is left as it was and the sequence surfaces
\* that error.  The advance of resolve or put that made the lookup has
\* fetched no block; that of get has fetched the block whose codec it
\* looks up.
LookupFailureSurfaced ==
  LookupFailed =>
    LET n == Len(it.ops)
    IN  /\ it.error
        /\ it.thrown = "getFormat"
        /\ hist.last.err =
             (IF hasLoader THEN "loader failed" ELSE "No resolver found")
        /\ hist.last.unchanged
        /\ resolvers[hist.last.code] = NoFormat
        /\ it.ops[n] = "getFormat"
        /\ FetchedBeforeLookup <=> it.kind = "get"

LoaderFailureSurfaced ==
  /\ LookupFailed
  /\ hasLoader
  /\ it.kind = "resolve"
  /\ Len(it.emitted) > 0

\* C11 as stated: the failed lookup is surfaced before any block is fetched.
LookupFailsBeforeAnyFetch ==
  LookupFailed =>
    LET n == Len(it.ops)
    IN  /\ it.thrown = "getFormat"
        /\ hist.last.unchanged
        /\ it.ops[n] = "getFormat"
        /\ ~FetchedBeforeLookup

\* The number of fetches among the operations a sequence issued.
RECURSIVE Fetches(_)
Fetches(ops) ==
  IF ops = <<>> THEN 0
  ELSE (IF Head(ops) = "bs.get" THEN 1 ELSE 0) + Fetches(Tail(ops))

\* C14: get yields one node per input CID in input order, each the block
\* of that CID decoded in the codec of the block's CID; after the first
\* failure it yields nothing more and fetches nothing more, whatever
\* advances follow.
GetYieldsInOrderAndStops ==
  it.kind = "get" =>
    LET n == Len(it.emitted)
    IN  /\ n <= Len(it.input)
        /\ \A i \in 1..n :
             LET block == bsGet(store, it.input[i])
             IN  /\ it.emitted[i].cid = it.input[i]
                 /\ block.data.enc = block.cid.codec
                 /\ it.emitted[i].node = block.data.body
        /\ Fetches(it.ops) = IF it.failed THEN n + 1 ELSE n
        /\ it.failed =>
             /\ Len(it.ops) = it.opsAtFail
             /\ n = it.emittedAtFail
        /\ (it.done /\ ~it.failed) => n = Len(it.input)

GetStoppedAtFailure ==
  /\ it.kind = "get"
  /\ it.failed
  /\ it.done
  /\ Len(it.emitted) = 1
  /\ Len(it.input) = MaxItems

(***************************************************************************)
(* tree(cid, offsetPath, userOptions)                                      *)
(*                                                                         *)
(* Paths are JavaScript strings, modelled as sequences of characters.      *)
(***************************************************************************)
MaxTreeAdvances == 9

\* String(undefined), what basePath + undefined appends.
UndefinedChars == <<"u", "n", "d", "e", "f", "i", "n", "e", "d">>

\* str.startsWith(prefix) and str.slice(n).
startsWith(str, prefix) ==
  Len(prefix) <= Len(str) /\ SubSeq(str, 1, Len(prefix)) = prefix

slice(str, n) == SubSeq(str, n + 1, Len(str))

\* The graph tree walks: tR holds a link under "a", a plain value under
\* "ab" and an old style link under "b"; tA links on to tC; tE has no
\* child path at all; tS links to tE.
TreeNodes == {"tR", "tA", "tB", "tC", "tE", "tS"}

TreeStore ==
  {Block([enc |-> CodecOfNode(n), body |-> n], CidOf(n)) : n \in TreeNodes}

\* The child path segments a Format enumerates for a node, in its order.
TreeSegments(n) ==
  CASE n = "tR" -> << <<"a">>, <<"a", "b">>, <<"b">> >>
    [] n = "tA" -> << <<"a">>, <<"b">> >>
    [] n = "tB" -> << <<"a">> >>
    [] n = "tC" -> << <<"b">> >>
    [] n = "tS" -> << <<"a">> >>
    [] OTHER    -> << >>

\* What a node holds under a segment when that is a link.
TreeLink(n, seg) ==
  CASE n = "tR" /\ seg = <<"a">> -> JsCid(CidOf("tA"))
    [] n = "tR" /\ seg = <<"b">> -> JsMap({"/"}, CidToString(CidOf("tB")), "")
    [] n = "tA" /\ seg = <<"a">> -> JsCid(CidOf("tC"))
    [] n = "tS" /\ seg = <<"a">> -> JsCid(CidOf("tE"))
    [] OTHER -> JsNull

\* resolver.tree(data): the segments of the node the bytes decode to.
resolverTree(format, data) ==
  LET d == deserialize(format, data)
  IN  IF d.ok THEN [ok |-> TRUE, paths |-> TreeSegments(d.node)]
      ELSE [ok |-> FALSE, paths |-> <<>>]

\* resolver.isLink(data, path): the link under the path, or false.  What a
\* Format does with a path that is undefined is its own affair: it throws
\* or it finds no link (undefLink).
resolverIsLink(format, data, treePath, undefLink) ==
  LET d == deserialize(format, data)
  IN  IF ~d.ok THEN [ok |-> FALSE, link |-> JsNull]
      ELSE IF ~treePath.defined
      THEN [ok |-> undefLink # "throw", link |-> JsNull]
      ELSE [ok |-> TRUE, link |-> TreeLink(d.node, treePath.chars)]

\* IPLDResolver._maybeCID(link) (lines 389-397).
_maybeCID(link) ==
  IF isCID(link) THEN [ok |-> TRUE, isNull |-> FALSE, cid |-> link]
  ELSE IF link.type = "map" /\ "/" \in link.keys
  THEN LET c == newCID(link.slash)
       IN  [ok |-> c.ok, isNull |-> FALSE, cid |-> JsCid(c.cid)]
  ELSE [ok |-> TRUE, isNull |-> TRUE, cid |-> JsNull]

\* What the loader does when tree looks a codec up: it fails, or returns a
\* Format (of the codec asked for, when that is one).
treeLoaded(codec, loadOk) ==
  IF hasLoader /\ loadOk
  THEN Format(IF codec \in CodecNames THEN codec ELSE "dag-cbor", LoaderImpl)
  ELSE LoadThrows

\* cid.codec of whatever was passed as a CID.
codecOf(v) == IF isCID(v) THEN v.cid.codec ELSE Undefined

NoBlock == Block([enc |-> "", body |-> ""], NullCid)

NoTreeOptions == [has |-> {}, recursive |-> FALSE]

\* Lines 256-265: an object in the place of offsetPath is the options, a
\* missing offsetPath is the empty string, recursive defaults to false.
treeOptions(offsetPath, userOptions) ==
  LET user == IF offsetPath.type = "map" THEN offsetPath.options ELSE userOptions
  IN  [offsetPath |-> IF offsetPath.type = "string" THEN offsetPath.chars
                      ELSE <<>>,
       recursive |-> IF "recursive" \in user.has THEN user.recursive ELSE FALSE]

\* Lines 318: a link met goes to the back of the queue.
enqueue_front(queue, entry) == <<entry>> \o queue

enqueue(queue, entry) == Append(queue, entry)

\* Line 318: the base path of the node a link leads to.
linkBasePath_bare(fullPath) == fullPath

linkBasePath(fullPath) == fullPath \o <<"/">>

tree(cid, offsetPath, userOptions) ==
  LET options == treeOptions(offsetPath, userOptions)
  IN  [kind |-> "tree", root |-> cid, offsetPath |-> options.offsetPath,
       recursive |-> options.recursive,
       treePaths |-> <<>>, block |-> NoBlock,
       queue |-> <<[cid |-> cid, basePath |-> <<>>]>>,
       cid |-> cid, basePath |-> <<>>,
       emitted |-> <<>>, cands |-> <<>>, loads |-> <<>>, asks |-> <<>>,
       pushes |-> <<>>, refills |-> <<>>, ops |-> <<>>,
       failed |-> FALSE, error |-> FALSE, errors |-> 0, thrown |-> "",
       opsAtFail |-> 0, emittedAtFail |-> 0, done |-> FALSE, advances |-> 0]

\* Lines 302-308: the head of the queue is taken off and its node fetched;
\* the segments the Format enumerates join the buffer.
treeRefill(st, res, s, loadOk) ==
  LET entry == Head(st.queue)
      st1 == [st EXCEPT !.queue = Tail(@), !.cid = entry.cid,
                        !.basePath = entry.basePath,
                        !.refills = Append(@, [buffer |-> Len(st.treePaths),
                                               queue |-> Len(st.queue)])]
  IN
  IF entry.cid.type = "null"
  THEN [ok |-> FALSE, st |-> threw(st1, "cid.codec"), resolvers |-> res]
  ELSE
    LET codec == codecOf(entry.cid)
        gf == _getFormat(res, codec, treeLoaded(codec, loadOk))
        st2 == [st1 EXCEPT !.ops = @ \o (IF gf.loaderInvoked
                                         THEN <<"getFormat", "loadFormat">>
                                         ELSE <<"getFormat">>)]
    IN
    IF ~gf.ok
    THEN [ok |-> FALSE, st |-> threw(st2, "getFormat"),
          resolvers |-> gf.resolvers]
    ELSE
      LET st3 == [st2 EXCEPT !.ops = Append(@, "bs.get")]
      IN
      IF ~isCID(entry.cid) \/ ~bsHas(s, entry.cid.cid)
      THEN [ok |-> FALSE, st |-> threw(st3, "bs.get"),
            resolvers |-> gf.resolvers]
      ELSE
        LET block == bsGet(s, entry.cid.cid)
            t == resolverTree(gf.format, block.data)
            st4 == [st3 EXCEPT !.block = block,
                               !.ops = Append(@, "tree"),
                               !.loads = Append(@, [cid |-> block.cid,
                                                    basePath |-> entry.basePath])]
        IN
        IF ~t.ok
        THEN [ok |-> FALSE, st |-> threw(st4, "tree"),
              resolvers |-> gf.resolvers]
        ELSE [ok |-> TRUE, st |-> [st4 EXCEPT !.treePaths = @ \o t.paths],
              resolvers |-> gf.resolvers]

\* maybeRecurse(block, treePath) (lines 268-280) and the push of line 318.
maybeRecurse(st, res, treePath, fullPath, loadOk, undefLink) ==
  LET codec == st.block.cid.codec
      gf == _getFormat(res, codec, treeLoaded(codec, loadOk))
      st1 == [st EXCEPT !.ops = @ \o (IF gf.loaderInvoked
                                      THEN <<"getFormat", "loadFormat">>
                                      ELSE <<"getFormat">>)]
  IN
  IF ~gf.ok
  THEN [ok |-> FALSE, st |-> threw(st1, "getFormat"), resolvers |-> gf.resolvers]
  ELSE
    LET l == resolverIsLink(gf.format, st.block.data, treePath, undefLink)
        st2 == [st1 EXCEPT !.ops = Append(@, "isLink"),
                           !.asks = Append(@, [block |-> st.block.cid,
                                               segment |-> treePath,
                                               basePath |-> st.basePath,
                                               load |-> Len(st.loads)])]
    IN
    IF ~l.ok
    THEN [ok |-> FALSE, st |-> threw(st2, "isLink"), resolvers |-> gf.resolvers]
    ELSE IF l.link = JsNull
    THEN [ok |-> TRUE, st |-> [st2 EXCEPT !.cid = JsNull],
          resolvers |-> gf.resolvers]
    ELSE
      LET c == _maybeCID(l.link)
      IN
      IF ~c.ok
      THEN [ok |-> FALSE, st |-> threw(st2, "maybeCID"),
            resolvers |-> gf.resolvers]
      ELSE IF c.isNull
      THEN [ok |-> TRUE, st |-> [st2 EXCEPT !.cid = JsNull],
            resolvers |-> gf.resolvers]
      ELSE [ok |-> TRUE,
            st |-> [st2 EXCEPT
                      !.cid = c.cid,
                      !.queue = enqueue(@, [cid |-> c.cid,
                                            basePath |-> linkBasePath(fullPath)]),
                      !.pushes = Append(@, [cid |-> c.cid,
                                            basePath |-> linkBasePath(fullPath),
                                            from |-> fullPath,
                                            block |-> st.block.cid,
                                            segment |-> treePath,
                                            load |-> Len(st.loads)])],
            resolvers |-> gf.resolvers]

\* The closure next of tree (lines 293-336), its call of itself for a
\* candidate it does not return included.
RECURSIVE treeRun(_, _, _, _, _)
treeRun(st, res, s, loadOk, undefLink) ==
  IF st.treePaths = <<>> /\ st.queue = <<>>
  THEN [it |-> [st EXCEPT !.done = TRUE, !.advances = @ + 1], resolvers |-> res]
  ELSE
    LET r == IF st.treePaths = <<>> /\ Len(st.queue) > 0
             THEN treeRefill(st, res, s, loadOk)
             ELSE [ok |-> TRUE, st |-> st, resolvers |-> res]
    IN
    IF ~r.ok
    THEN [it |-> r.st, resolvers |-> r.resolvers]
    ELSE
      LET treePath == IF r.st.treePaths = <<>>
                      THEN [defined |-> FALSE, chars |-> UndefinedChars]
                      ELSE [defined |-> TRUE, chars |-> Head(r.st.treePaths)]
          st1 == [r.st EXCEPT !.treePaths = IF @ = <<>> THEN @ ELSE Tail(@)]
          fullPath == st1.basePath \o treePath.chars
          m == IF st1.recursive
               THEN maybeRecurse(st1, r.resolvers, treePath, fullPath,
                                 loadOk, undefLink)
               ELSE [ok |-> TRUE, st |-> st1, resolvers |-> r.resolvers]
      IN
      IF ~m.ok
      THEN [it |-> m.st, resolvers |-> m.resolvers]
      ELSE
        IF /\ startsWith(fullPath, st.offsetPath)
           /\ Len(fullPath) > Len(st.offsetPath)
        THEN
          LET value == IF Len(st.offsetPath) > 0
                       THEN slice(fullPath, Len(st.offsetPath) + 1)
                       ELSE fullPath
          IN  [it |-> [m.st EXCEPT
                         !.emitted = Append(@, value),
                         !.cands = Append(@, [fullPath |-> fullPath,
                                              defined |-> treePath.defined,
                                              out |-> TRUE, value |-> value]),
                         !.advances = @ + 1],
               resolvers |-> m.resolvers]
        ELSE treeRun([m.st EXCEPT
                        !.cands = Append(@, [fullPath |-> fullPath,
                                             defined |-> treePath.defined,
                                             out |-> FALSE, value |-> <<>>])],
                     m.resolvers, s, loadOk, undefLink)

treeNext(st0, res, s, loadOk, undefLink) ==
  treeRun([st0 EXCEPT !.error = FALSE, !.thrown = ""], res, s, loadOk, undefLink)

(***************************************************************************)
(* The argument checks at the public entry points.                         *)
(***************************************************************************)
\* What a caller can pass: a value of any JavaScript type.
JsOther(type) ==
  [type |-> type, cid |-> NullCid, keys |-> {}, slash |-> <<>>,
   chars |-> <<>>, body |-> ""]

\* Lines 89-94.
resolveArgsOk(cid, path) == isCID(cid) /\ path.type = "string"

\* Lines 139-142 and 223-226: an iterable that is no string and no Buffer.
iterableOk(cids) == cids.type = "list"

\* Lines 168-177.
putArgsOk(nodes, format) == iterableOk(nodes) /\ format.type = "number"

argsOk(op, a, b) ==
  CASE op = "resolve" -> resolveArgsOk(a, b)
    [] op = "put" -> putArgsOk(a, b)
    [] OTHER -> iterableOk(a)

(***************************************************************************)
(* The resolver driven through tree and through calls with arguments of    *)
(* the wrong type.                                                         *)
(***************************************************************************)
TreeNoCall == [op |-> "none", invalid |-> FALSE, threw |-> FALSE, before |-> <<>>]

TreeInit ==
  /\ resolvers \in {constructor([c \in Codes |-> NoFormat], fs) : fs \in InitFormats}
  /\ hasLoader \in BOOLEAN
  /\ store = TreeStore
  /\ it = NoIt
  /\ calls = 0
  /\ lastCall = TreeNoCall
  /\ hist = [first |-> [c \in Codes |-> NoFormat], last |-> NoLookup,
             written |-> {}]

TreeRoots ==
  {JsCid(CidOf(n)) : n \in {"tR", "tE", "tS"}} \cup
  {JsCid(DanglingCid), JsString(<<"x">>), JsNull}

RecursiveOption == [has |-> {"recursive"}, recursive |-> TRUE]

TreeOffsets ==
  {JsOther("undefined"), JsString(<<"a">>),
   [type |-> "map", options |-> RecursiveOption]}

TreeUserOptions == {NoTreeOptions, RecursiveOption}

\* Arguments tried at resolve(cid, path), get(cids) / remove(cids) and
\* put(nodes, format).
ArgLists ==
  ({"resolve"} \X {JsCid(CidOf("tR")), JsString(<<"a">>), JsOther("undefined")}
               \X {JsString(<<"a">>), JsOther("number")})
  \cup
  ({"get", "remove"} \X {JsOther("list"), JsString(<<"a">>), JsOther("buffer"),
                         JsOther("number")}
                     \X {JsOther("undefined")})
  \cup
  ({"put"} \X {JsOther("list"), JsString(<<"a">>)}
           \X {JsOther("number"), JsOther("undefined"), JsString(<<"a">>)})

Tree(cid, offsetPath, userOptions) ==
  /\ calls < MaxCalls
  /\ Idle
  /\ it' = tree(cid, offsetPath, userOptions)
  /\ lastCall' = [op |-> "tree", invalid |-> ~isCID(cid), threw |-> FALSE,
                  before |-> resolvers]
  /\ calls' = calls + 1
  /\ UNCHANGED <<resolvers, hasLoader, store, hist>>

TreeNext ==
  /\ it.kind = "tree"
  /\ fancyIterator(it)
  /\ it.advances < MaxTreeAdvances
  /\ it.errors <= MaxRetries
  /\ \E loadOk \in BOOLEAN, undefLink \in {"throw", "none"} :
       LET r == treeNext(it, resolvers, store, loadOk, undefLink)
       IN  /\ it' = r.it
           /\ resolvers' = r.resolvers
  /\ UNCHANGED <<hasLoader, store, calls, lastCall, hist>>

\* resolve, get, put or remove called with arguments its checks refuse:
\* the call throws.
Reject(op, a, b) ==
  /\ calls < MaxCalls
  /\ Idle
  /\ ~argsOk(op, a, b)
  /\ lastCall' = [op |-> op, invalid |-> TRUE, threw |-> TRUE,
                  before |-> resolvers]
  /\ calls' = calls + 1
  /\ UNCHANGED <<resolvers, hasLoader, store, it, hist>>

NextTree ==
  \/ \E cid \in TreeRoots, o \in TreeOffsets, u \in TreeUserOptions :
       Tree(cid, o, u)
  \/ TreeNext
  \/ \E args \in ArgLists : Reject(args[1], args[2], args[3])

TreeSpec == TreeInit /\ [][NextTree]_vars

(***************************************************************************)
(* Properties of tree and of the argument checks.                          *)
(***************************************************************************)
\* The sequence of the members of a finite sequence, as a set.
Range(q) == {q[i] : i \in 1..Len(q)}

\* C12: tree without recursion yields the segments the Format enumerates
\* for the root node, each once and in order, and nothing else, however
\* many there are; it fetches one block.
TreeYieldsRootSegments ==
  (it.kind = "tree" /\ ~it.recursive /\ it.offsetPath = <<>>
     /\ isCID(it.root) /\ bsHas(store, it.root.cid)) =>
    LET segs == TreeSegments(it.root.cid.digest)
    IN  /\ Len(it.emitted) <= Len(segs)
        /\ it.emitted = SubSeq(segs, 1, Len(it.emitted))
        /\ (it.done /\ ~it.failed) => it.emitted = segs
        /\ Fetches(it.ops) <= 1

\* The paths a breadth-first walk lists from the nodes of a queue.
target(link) ==
  IF isCID(link) THEN link.cid.digest ELSE newCID(link.slash).cid.digest

RECURSIVE Kids(_, _, _)
Kids(node, base, segs) ==
  IF segs = <<>> THEN <<>>
  ELSE (IF TreeLink(node, Head(segs)) = JsNull THEN <<>>
        ELSE <<[node |-> target(TreeLink(node, Head(segs))),
                base |-> base \o Head(segs) \o <<"/">>]>>)
       \o Kids(node, base, Tail(segs))

RECURSIVE Bfs(_)
Bfs(queue) ==
  IF queue = <<>> THEN <<>>
  ELSE LET e == Head(queue)
           segs == TreeSegments(e.node)
       IN  [i \in 1..Len(segs) |-> e.base \o segs[i]]
           \o Bfs(Tail(queue) \o Kids(e.node, e.base, segs))

\* C13: recursive tree lists the graph breadth-first: nodes are expanded in
\* the order their links were met, the paths of a node come in the
\* Format's order and before those of any node queued later, and the paths
\* of a linked node carry the path of the link and "/" in front; the
\* link's own path is listed too.
TreeExpandsBreadthFirst ==
  (it.kind = "tree" /\ it.recursive /\ it.offsetPath = <<>>
     /\ isCID(it.root) /\ ~it.failed
     /\ \A i \in 1..Len(it.loads) :
          TreeSegments(it.loads[i].cid.digest) # <<>>) =>
    LET run == Bfs(<<[node |-> it.root.cid.digest, base |-> <<>>]>>)
    IN  /\ Len(it.emitted) <= Len(run)
        /\ it.emitted = SubSeq(run, 1, Len(it.emitted))
        /\ it.done => it.emitted = run
        /\ \A i \in 2..Len(it.loads) :
             it.loads[i] = [cid |-> it.pushes[i - 1].cid.cid,
                            basePath |-> it.pushes[i - 1].basePath]

TreeListedBreadthFirst ==
  /\ it.kind = "tree"
  /\ it.recursive
  /\ it.root = JsCid(CidOf("tR"))
  /\ it.offsetPath = <<>>
  /\ it.done
  /\ ~it.failed
  /\ Len(it.emitted) = 7
  /\ Len(it.loads) = 4

\* C15: a call with an argument of the wrong type throws at the call, and
\* nothing has been done for it: no operation issued, the registry as it
\* was.
InvalidArgumentsFailAtCall ==
  lastCall.invalid =>
    /\ lastCall.threw
    /\ resolvers = lastCall.before
    /\ lastCall.op = "tree" => it.ops = <<>>

\* C16: a candidate is emitted exactly when it starts with the offset path
\* and is longer, and what is emitted is the candidate without the offset
\* path in front (without the "/" after it too, when one follows); the
\* offset path itself is never emitted.
TreeStripsOffsetPrefix ==
  it.kind = "tree" =>
    \A i \in 1..Len(it.cands) :
      LET c == it.cands[i]
          off == it.offsetPath
          rest == slice(c.fullPath, Len(off))
      IN  /\ c.out <=> (startsWith(c.fullPath, off) /\ Len(c.fullPath) > Len(off))
          /\ c.out => /\ c.fullPath # off
                      /\ \/ c.value = rest
                         \/ off # <<>> /\ Head(rest) = "/" /\ c.value = Tail(rest)

\* C17: tree signals exhaustion only with the buffer and the queue both
\* empty, refills the buffer only when it is empty and the queue is not,
\* and emits only paths built from segments the Format enumerated.
TreeEmitsEnumeratedPaths ==
  it.kind = "tree" =>
    /\ it.done => (it.treePaths = <<>> /\ it.queue = <<>>)
    /\ \A i \in 1..Len(it.refills) :
         it.refills[i].buffer = 0 /\ it.refills[i].queue > 0
    /\ \A i \in 1..Len(it.cands) : it.cands[i].out => it.cands[i].defined

\* C18: the block asked about a segment is the block of the node whose
\* enumeration produced the segment, and a link found is queued with the
\* full path of the segment and "/" as its base path.
LinkAskedOnProducingBlock ==
  it.kind = "tree" =>
    /\ \A i \in 1..Len(it.asks) :
         LET a == it.asks[i]
         IN  a.segment.defined =>
               /\ a.load \in 1..Len(it.loads)
               /\ it.loads[a.load] = [cid |-> a.block, basePath |-> a.basePath]
               /\ a.segment.chars \in Range(TreeSegments(a.block.digest))
    /\ \A i \in 1..Len(it.pushes) :
         LET p == it.pushes[i]
         IN  /\ p.segment.defined
             /\ p.from = it.loads[p.load].basePath \o p.segment.chars
             /\ p.basePath = p.from \o <<"/">>
             /\ p.block = it.loads[p.load].cid
             /\ p.cid = _maybeCID(TreeLink(p.block.digest, p.segment.chars)).cid

LinksQueuedWhileWalking ==
  /\ it.kind = "tree"
  /\ it.recursive
  /\ it.done
  /\ ~it.failed
  /\ Len(it.pushes) = 3
  /\ Len(it.asks) = 7

(***************************************************************************)
(* Interleaved advances.  Two sequences returned by resolve live on one    *)
(* resolver; a consumer may call next() again before the earlier call has  *)
(* settled.  A call of the closure next (lines 96-127) is a frame that is  *)
(* suspended at each await: on _getFormat, on bs.get and on                *)
(* format.resolver.resolve.  The frames of one sequence share the closure  *)
(* variables cid and path; all frames share this.resolvers.               *)
(***************************************************************************)
MaxRequests == 2

SeqIds == {"s1", "s2"}

\* The calls a consumer makes here: a chain of two links, a plain field, a
\* block of the other codec and a CID without a block.
ConcInputs ==
  { <<CidOf("nR"), <<"a", "a">>>>,
    <<CidOf("nR"), <<"b">>>>,
    <<CidOf("nB"), <<"a">>>>,
    <<DanglingCid, <<>>>> }

\* The iterator resolve returns, with the calls of next made on it.
resolveIterator(cid, path) ==
  [kind |-> "resolve", cid |-> cid, path |-> path, frames |-> <<>>,
   emitted |-> <<>>, fetches |-> <<>>, overlapped |-> FALSE]

\* A call of next: where it is suspended and the values it holds.
Frame(pc, code, format) ==
  [pc |-> pc, code |-> code, format |-> format, cid |-> NullCid,
   path |-> <<>>, data |-> [enc |-> "", body |-> ""], err |-> ""]

InFlight == {"lookup", "loading", "fetching", "resolving"}

\* Lines 346-354, the part of _getFormat that runs when it is called: the
\* registry as it is at that moment answers, or the loader is asked.
lookupNow(res, codec) ==
  LET code == IF codec \in CodecNames THEN getCode(codec) ELSE codec
  IN  IF code \in Codes /\ res[code] # NoFormat
      THEN Frame("lookup", code, res[code])
      ELSE Frame("loading", code, NoFormat)

\* Lines 357-359, the part of _getFormat that runs once the loader has
\* answered: addFormat on the registry as it is by then.
lookupLoaded(res, frame, loaded) ==
  IF loaded.kind = "throw"
  THEN [resolvers |-> res, loaded |-> FALSE, ok |-> FALSE,
        frame |-> [frame EXCEPT !.pc = "rejected", !.err = loadError]]
  ELSE LET a == addFormat(res, loaded)
       IN  [resolvers |-> a.resolvers, loaded |-> TRUE, ok |-> a.ok,
            frame |-> IF a.ok
                      THEN [frame EXCEPT !.pc = "lookup", !.format = loaded]
                      ELSE [frame EXCEPT !.pc = "rejected", !.err = a.err]]

\* Lines 98-102: a call of next up to its first suspension.
nextCalled(st, res) ==
  IF st.cid = NullCid
  THEN [Frame("returned", "", NoFormat) EXCEPT !.err = "done"]
  ELSE lookupNow(res, st.cid.codec)

\* Line 107: the frame resumes with its Format and asks the block service
\* for the block of cid, as cid is by now.
fetchIssued(st, i) ==
  [st EXCEPT !.frames[i].pc = "fetching",
             !.frames[i].cid = st.cid,
             !.fetches = Append(@, st.cid)]

\* Line 108: the block has arrived (or bs.get failed); the Format is asked
\* to resolve path, as path is by now.
blockArrived(st, s, i) ==
  IF ~bsHas(s, st.frames[i].cid)
  THEN [st EXCEPT !.frames[i].pc = "rejected", !.frames[i].err = "bs.get"]
  ELSE [st EXCEPT !.frames[i].pc = "resolving",
                  !.frames[i].data = bsGet(s, st.frames[i].cid).data,
                  !.frames[i].path = st.path]

\* Lines 111-126: the Format has answered; path and cid are assigned and
\* the item is returned.
resolved(st, i) ==
  LET f == st.frames[i]
      result == resolverResolve(f.format, f.data, f.path)
  IN  IF ~result.ok
      THEN [st EXCEPT !.frames[i].pc = "rejected", !.frames[i].err = "resolve"]
      ELSE LET link == legacyLink(result.value)
           IN  IF ~link.ok
               THEN [st EXCEPT !.path = result.remainderPath,
                               !.frames[i].pc = "rejected",
                               !.frames[i].err = "link"]
               ELSE [st EXCEPT !.path = result.remainderPath,
                               !.cid = nextCid(link.value),
                               !.emitted = Append(@,
                                  [remainderPath |-> result.remainderPath,
                                   value |-> link.value,
                                   from |-> f.cid]),
                               !.frames[i].pc = "returned"]

FramesAt(s, pc) ==
  IF it[s].kind = "resolve"
  THEN {i \in 1..Len(it[s].frames) : it[s].frames[i].pc = pc}
  ELSE {}

ConcInit ==
  /\ resolvers \in {constructor([c \in Codes |-> NoFormat], fs) : fs \in InitFormats}
  /\ hasLoader \in BOOLEAN
  /\ store = InitStore
  /\ it = [s \in SeqIds |-> NoIt]
  /\ calls = 0
  /\ lastCall = NoCall
  /\ hist = {}

\* resolve(cid, path) with valid arguments returns a new sequence.
ConcResolve(s, cid, path) ==
  /\ it[s].kind = "none"
  /\ it' = [it EXCEPT ![s] = resolveIterator(cid, path)]
  /\ calls' = calls + 1
  /\ UNCHANGED <<resolvers, hasLoader, store, lastCall, hist>>

\* The consumer asks sequence s for its next item, whether or not its
\* earlier requests have settled.
Request(s) ==
  /\ it[s].kind = "resolve"
  /\ Len(it[s].frames) < MaxRequests
  /\ fancyIterator(it[s])
  /\ it' = [it EXCEPT
              ![s].overlapped =
                 @ \/ \E i \in 1..Len(it[s].frames) : it[s].frames[i].pc \in InFlight,
              ![s].frames = Append(@, nextCalled(it[s], resolvers))]
  /\ UNCHANGED <<resolvers, hasLoader, store, calls, lastCall, hist>>

\* this.loadFormat(codec) settles for frame i of sequence s.
LoaderReturns(s, i) ==
  /\ i \in FramesAt(s, "loading")
  /\ \E loaded \in loadFormat(it[s].frames[i].code) :
       LET r == lookupLoaded(resolvers, it[s].frames[i], loaded)
       IN  /\ resolvers' = r.resolvers
           /\ it' = [it EXCEPT ![s].frames[i] = r.frame]
           /\ hist' = hist \cup {[seq |-> s, req |-> i, code |-> r.frame.code,
                                  loaded |-> r.loaded, ok |-> r.ok,
                                  err |-> r.frame.err]}
  /\ UNCHANGED <<hasLoader, store, calls, lastCall>>

\* Frame i of sequence s resumes after _getFormat and calls bs.get.
Fetch(s, i) ==
  /\ i \in FramesAt(s, "lookup")
  /\ it' = [it EXCEPT ![s] = fetchIssued(it[s], i)]
  /\ UNCHANGED <<resolvers, hasLoader, store, calls, lastCall, hist>>

\* bs.get settles for frame i of sequence s.
FetchDone(s, i) ==
  /\ i \in FramesAt(s, "fetching")
  /\ it' = [it EXCEPT ![s] = blockArrived(it[s], store, i)]
  /\ UNCHANGED <<resolvers, hasLoader, store, calls, lastCall, hist>>

\* format.resolver.resolve settles for frame i of sequence s.
ResolveDone(s, i) ==
  /\ i \in FramesAt(s, "resolving")
  /\ it' = [it EXCEPT ![s] = resolved(it[s], i)]
  /\ UNCHANGED <<resolvers, hasLoader, store, calls, lastCall, hist>>

NextConc ==
  \/ \E s \in SeqIds, in \in ConcInputs : ConcResolve(s, in[1], in[2])
  \/ \E s \in SeqIds : Request(s)
  \/ \E s \in SeqIds, i \in 1..MaxRequests : LoaderReturns(s, i)
  \/ \E s \in SeqIds, i \in 1..MaxRequests : Fetch(s, i)
  \/ \E s \in SeqIds, i \in 1..MaxRequests : FetchDone(s, i)
  \/ \E s \in SeqIds, i \in 1..MaxRequests : ResolveDone(s, i)

ConcSpec == ConcInit /\ [][NextConc]_vars

(***************************************************************************)
(* Properties of interleaved advances.                                     *)
(***************************************************************************)
\* The block store and codec operations of sequence s that have been
\* issued and have not settled.
Outstanding(s) == FramesAt(s, "fetching") \cup FramesAt(s, "resolving")

NoFrameRejected(s) == FramesAt(s, "rejected") = {}

InterleavedLookupsBothSucceed ==
  IF \E s \in SeqIds : it[s].kind = "resolve" /\ it[s].overlapped THEN TRUE
  ELSE \A l \in hist :
         IF l.loaded
         THEN /\ l.ok
              /\ l.err # "Resolver already exists"
              /\ resolvers[l.code] = Entry(Format(CHOOSE n \in CodecNames :
                                                    getCode(n) = l.code,
                                                  LoaderImpl))
         ELSE TRUE

====
